---- MODULE Spec2Model ----
(***************************************************************************)
(* Model of the configuration documentation parser (package parse):        *)
(* Flags builds the flag registry, Config walks a configuration struct by  *)
(* reflection and assembles ConfigBlocks.  Strings are TLA+ strings and    *)
(* are parsed character by character, as the Go code parses them.          *)
(***************************************************************************)
EXTENDS Integers, Sequences, FiniteSets, TLC

(***************************************************************************)
(* Bounds of the model.                                                    *)
(***************************************************************************)
\* the largest number of fields declared by the top-level configuration type
MaxFields == 2

\* the deepest nesting of slices and maps in the types given to getFieldType
MaxDepth == 1

\* the largest number of aggregators of an encoded Aggregators value
MaxAggregators == 2

\* the largest number of entries of the source directory given to Backfill
MaxBlocks == 2

(***************************************************************************)
(* Strings.                                                                *)
(***************************************************************************)
Char(s, i) == SubSeq(s, i, i)

Upper == <<"A","B","C","D","E","F","G","H","I","J","K","L","M",
           "N","O","P","Q","R","S","T","U","V","W","X","Y","Z">>

Lower == <<"a","b","c","d","e","f","g","h","i","j","k","l","m",
           "n","o","p","q","r","s","t","u","v","w","x","y","z">>

\* unicode.IsLower on the characters the model uses
IsLower(c) == \E i \in 1..Len(Lower) : Lower[i] = c

ToLowerChar(c) ==
    IF \E i \in 1..Len(Upper) : Upper[i] = c
    THEN Lower[CHOOSE i \in 1..Len(Upper) : Upper[i] = c]
    ELSE c

RECURSIVE ToLower(_)
\* strings.ToLower
ToLower(s) == IF s = "" THEN "" ELSE ToLowerChar(Head(s)) \o ToLower(Tail(s))

\* strings.HasPrefix
HasPrefix(s, p) == Len(s) >= Len(p) /\ SubSeq(s, 1, Len(p)) = p

\* the index of the first occurrence of the character c in s, 0 when absent
IndexOf(s, c) ==
    IF \E i \in 1..Len(s) : Char(s, i) = c
    THEN CHOOSE i \in 1..Len(s) : Char(s, i) = c /\ \A j \in 1..(i-1) : Char(s, j) # c
    ELSE 0

RECURSIVE Split(_, _)
\* strings.Split(s, sep) for a one-character separator
Split(s, sep) ==
    LET k == IndexOf(s, sep)
    IN  IF k = 0 THEN <<s>>
        ELSE <<SubSeq(s, 1, k-1)>> \o Split(SubSeq(s, k+1, Len(s)), sep)

\* strings.SplitN(s, sep, 2) for a one-character separator
SplitN2(s, sep) ==
    LET k == IndexOf(s, sep)
    IN  IF k = 0 THEN <<s>>
        ELSE <<SubSeq(s, 1, k-1), SubSeq(s, k+1, Len(s))>>

\* yamlFieldNameParser = ^[^,]+ ; FindString gives "" when nothing matches
yamlFieldNameParser(tag) ==
    LET k == IndexOf(tag, ",")
    IN  IF k = 0 THEN tag ELSE SubSeq(tag, 1, k-1)

\* yamlFieldInlineParser = ^[^,]*,inline$
yamlFieldInlineParser(tag) ==
    LET k == IndexOf(tag, ",")
    IN  k > 0 /\ SubSeq(tag, k, Len(tag)) = ",inline"

(***************************************************************************)
(* reflect.Type values: Kind() is .kind and String() is .str.  A slice has *)
(* .elem, a map .key and .elem, a struct .pkg and .name; .exampler tells   *)
(* whether a pointer to the type implements ExamplerConfig.                *)
(***************************************************************************)
Basic(k) == [kind |-> k, str |-> k]

Named(k, s) == [kind |-> k, str |-> s]

SliceOf(e) == [kind |-> "slice", str |-> "[]" \o e.str, elem |-> e]

MapOf(k, v) == [kind |-> "map", str |-> "map[" \o k.str \o "]" \o v.str,
                key |-> k, elem |-> v]

StructT(pkg, name) == [kind |-> "struct", str |-> pkg \o "." \o name,
                       pkg |-> pkg, name |-> name]

TBool == Basic("bool")
TInt == Basic("int")
TUint16 == Basic("uint16")
TFloat64 == Basic("float64")
TString == Basic("string")
TFunc == Named("func", "func()")
TChan == Named("chan", "chan int")
TIface == Named("interface", "interface {}")
TDuration == Named("int64", "time.Duration")
TURLPtr == Named("ptr", "*url.URL")
TStringSliceCSV == [kind |-> "slice", str |-> "flagext.StringSliceCSV", elem |-> TString]
TLevel == Named("struct", "logging.Level")
TFormat == Named("struct", "logging.Format")
TURLValue == Named("struct", "flagext.URLValue")
TSecret == Named("struct", "flagext.Secret")
TModelDuration == Named("int64", "model.Duration")
TTime == Named("struct", "flagext.Time")
TTrackers == Named("map", "ingester.ActiveSeriesCustomTrackersConfig")
TRelabel == Named("slice", "[]*relabel.Config")

\* the types a pointer to which implements ExamplerConfig, with what
\* ExampleDoc returns
Examplers ==
    [x \in {"ingester.ActiveSeriesCustomTrackersConfig"} |->
        [comment |-> "The following configuration will count the active series.",
         yaml |-> "dev: '{namespace=~\"dev-.*\"}'"]]

(***************************************************************************)
(* Pointers to immutable values (to a flag.Flag, to a FieldExample) are    *)
(* sequences of length at most one: <<>> is nil and <<v>> points to v.     *)
(***************************************************************************)
NilPtr == <<>>

(***************************************************************************)
(* reflect.StructField: the Go name, the yaml, doc and category keys of    *)
(* the struct tag, and the type.  flag and defv describe what the type's   *)
(* RegisterFlags does with the field: flag # "" registers a flag of that   *)
(* name (under the prefix of the enclosing sections) whose value is stored *)
(* in the field, with the default text defv.                               *)
(***************************************************************************)
Fld(name, yaml, doc, category, type, flag, defv) ==
    [Name |-> name, yaml |-> yaml, doc |-> doc, category |-> category,
     Type |-> type, flag |-> flag, defv |-> defv]

TStore == StructT("cfg", "Store")
TMid == StructT("cfg", "Mid")
TWrap == StructT("cfg", "Wrap")
TBad == StructT("cfg", "Bad")
TDeep == StructT("cfg", "Deep")
TConfig == StructT("cfg", "Config")

\* the section types the top-level configuration type can nest
Sections ==
    [Store |-> << Fld("Bucket", "bucket", "", "", TString, "bucket", "b0"),
                  Fld("Key", "key", "", "experimental", TSecret, "key", "") >>,
     Mid   |-> << Fld("Store", "store", "description=the store", "", TStore, "", ""),
                  Fld("Limit", "limit", "default=7|required", "advanced", TInt, "", "") >>,
     Wrap  |-> << Fld("Mid", ",inline", "", "", TMid, "", ""),
                  Fld("Name", "name", "", "", TString, "name", "") >>,
     Bad   |-> << Fld("Ok", "ok", "", "", TBool, "ok", "false"),
                  Fld("Pipes", "pipes", "", "", SliceOf(TChan), "", "") >>,
     Deep  |-> << Fld("Bad", "bad", "", "", TBad, "", "") >>]

\* the field declarations the top-level configuration type is built from
Pool ==
    { Fld("Enabled", "", "", "", TBool, "enabled", "false"),
      Fld("Retries", "retries", "default=3", "", TUint16, "retries", "5"),
      Fld("Path", "path,omitempty", "description=the path", "advanced", TString, "", ""),
      Fld("Token", "token", "nocli", "", TString, "token", "t0"),
      Fld("Debug", "debug", "hidden", "", TBool, "debug", "false"),
      Fld("logger", "", "", "", TIface, "", ""),
      Fld("Legacy", "-", "", "", TString, "legacy", ""),
      Fld("Hook", "hook", "", "", TFunc, "", ""),
      Fld("UnusedFlagOld", "old", "", "", TInt, "", ""),
      Fld("Events", "events", "", "", TChan, "", ""),
      Fld("Peers", "peers", "", "", SliceOf(TString), "peers", ""),
      Fld("Weights", "weights", "", "", MapOf(TString, TFloat64), "", ""),
      Fld("Timeout", "timeout", "", "", TDuration, "timeout", "30s"),
      Fld("Trackers", "custom_trackers", "", "", TTrackers, "trackers", ""),
      Fld("Secret", "secret", "", "", TSecret, "secret", ""),
      Fld("Password", "password", "", "", TSecret, "", ""),
      Fld("Level", "level", "nocli", "", TLevel, "level", "info"),
      Fld("Period", "period", "default=1h", "", TModelDuration, "period", "15m"),
      Fld("Endpoint", "endpoint", "", "", TURLValue, "endpoint", ""),
      Fld("Since", "since", "", "", TTime, "since", "0"),
      Fld("Format", "format", "", "", TFormat, "format", "logfmt"),
      Fld("Store", "store", "", "", TStore, "", ""),
      Fld("Backup", "backup", "required", "", TStore, "", ""),
      Fld("Embedded", ",inline", "", "", TStore, "", ""),
      Fld("Mid", "mid", "", "", TMid, "", ""),
      Fld("MidEmbedded", ",inline", "", "", TMid, "", ""),
      Fld("Wrap", "wrap", "", "", TWrap, "", ""),
      Fld("Shadow", "shadow", "hidden", "", TStore, "", ""),
      Fld("Deep", "deep", "", "", TDeep, "", "") }

\* the struct types whose fields are flag values or documented as one leaf,
\* so that RegisterFlags does not descend into them
Wrappers == {TLevel, TFormat, TURLValue, TSecret, TTime}

(***************************************************************************)
(* The state.                                                              *)
(***************************************************************************)
VARIABLES
    cfgFields,   \* the fields the top-level type cfg.Config declares, in order
    cfg,         \* the value passed to Config as cfg: its type, and whether it is a nil pointer
    blockArg,    \* the block passed to the top-level Config: Nil or a block of the heap
    RootBlocks,  \* the root block registry, a sequence of RootBlock
    flags,       \* the flag registry Flags returned: storage address -> flag
    heap,        \* the ConfigBlocks allocated so far: heap[b] is the block at address b
    stack,       \* the running calls of Config, the innermost last
    err,         \* the error a call of Config has just returned to its caller
    result,      \* what the top-level call returned
    origin       \* history: <<b, i>> -> the storage address of the field heap[b].Entries[i] was built from

\* the state of one extraction
cfgVars == <<cfgFields, cfg, blockArg, RootBlocks, flags, heap, stack, err, result, origin>>

\* The state of one use of the type table by tooling: ReflectType(typ) and
\* getFieldType of the type it returned (or of a type given directly).
VARIABLES
    typ,         \* the semantic type name passed to ReflectType ("" when a type is given directly)
    rtype,       \* the reflect.Type at hand: NilPtr before ReflectType returned, else <<type>>
    classified,  \* what getFieldType returned, [type, err]: NilPtr before it ran, else <<r>>
    typPanic     \* whether ReflectType panicked

typVars == <<typ, rtype, classified, typPanic>>

\* The state of one encode/decode of an Aggregators value (package validation).
VARIABLES
    aggs,        \* the Aggregators value that is encoded, <<a>>; NilPtr when a given document is decoded
    format,      \* "json" or "yaml"
    encoded,     \* the bytes to decode: NilPtr before Marshal ran, else <<text>>
    decoded,     \* the Aggregators variable that is decoded into
    prior,       \* history: what decoded held before Unmarshal
    decodeErr    \* what Unmarshal returned: "" before it ran, "nil", or "error"

aggVars == <<aggs, format, encoded, decoded, prior, decodeErr>>

\* The state of one run of MimirClient.Backfill (package client).
VARIABLES
    source,      \* the source directory: whether it can be read, and its entries in the order of os.ReadDir
    bfPc,        \* where Backfill is: "readdir", "meta", "start", "walk", "complete" or "done"
    bfBlock,     \* the index in source.es of the entry backfillBlock is at
    bfEntry,     \* the index of the entry filepath.WalkDir is at
    requests,    \* history: the requests handed to doRequest, with what came back, in the order of the calls
    bfErr        \* what Backfill returned: NilPtr while it runs or for nil, else <<message>>

bfVars == <<source, bfPc, bfBlock, bfEntry, requests, bfErr>>

\* everything that is not the state of an extraction
others == <<typVars, aggVars, bfVars>>

vars == <<cfgVars, others>>

\* the nil *ConfigBlock
Nil == 0

\* t.NumField() and t.Field(i) of a struct type
Fields(t) == IF t = TConfig THEN cfgFields ELSE Sections[t.name]

(***************************************************************************)
(* The struct tag helpers.                                                 *)
(***************************************************************************)
RECURSIVE DocEntries(_, _)
\* the loop of parseDocTag over the entries of the doc tag
DocEntries(entries, m) ==
    IF entries = <<>> THEN m
    ELSE LET parts == SplitN2(Head(entries), "=")
             key == parts[1]
             val == IF Len(parts) = 1 THEN "" ELSE parts[2]
         IN  DocEntries(Tail(entries),
                        [k \in DOMAIN m \cup {key} |-> IF k = key THEN val ELSE m[k]])

parseDocTag(f) ==
    IF f.doc = "" THEN [k \in {} |-> ""]
    ELSE DocEntries(Split(f.doc, "|"), [k \in {} |-> ""])

getDocTagFlag(f, name) == name \in DOMAIN parseDocTag(f)

getDocTagValue(f, name) ==
    LET m == parseDocTag(f) IN IF name \in DOMAIN m THEN m[name] ELSE ""

isFieldHidden(f) == getDocTagFlag(f, "hidden")

isAbsentInCLI(f) == getDocTagFlag(f, "nocli")

isFieldRequired(f) == getDocTagFlag(f, "required")

\* a variant of isFieldInline whose pattern matches every tag
isFieldInlineAlways(f) == TRUE

isFieldInline(f) == yamlFieldInlineParser(f.yaml)

getFieldDescription(f, fallback) ==
    LET desc == getDocTagValue(f, "description")
    IN  IF desc # "" THEN desc ELSE fallback

\* a variant of getFieldDefault that ignores the doc tag
getFieldDefaultFallback(field, fallback) == fallback

getFieldDefault(field, fallback) ==
    LET v == getDocTagValue(field, "default")
    IN  IF v # "" THEN v ELSE fallback

getFieldName(field) ==
    IF field.yaml = ""
    THEN IF IsLower(Char(field.Name, 1)) THEN "" ELSE ToLower(field.Name)
    ELSE LET fieldName == yamlFieldNameParser(field.yaml)
         IN  IF fieldName = "-" THEN "" ELSE fieldName

\* fieldcategory.GetOverride: the category override of a flag name, if any
Overrides == [x \in {"mid.store.bucket", "mid.store.key"} |-> "advanced"]

GetOverride(name) == IF name \in DOMAIN Overrides THEN <<Overrides[name]>> ELSE NilPtr

getFieldCategoryTagFirst(field, name) ==
    IF field.category # "" THEN field.category
    ELSE IF GetOverride(name) # NilPtr THEN GetOverride(name)[1] ELSE ""

getFieldCategory(field, name) ==
    IF GetOverride(name) # NilPtr THEN GetOverride(name)[1] ELSE field.category

getFieldExample(fieldKey, fieldType) ==
    IF fieldType.str \notin DOMAIN Examplers THEN NilPtr
    ELSE << [Comment |-> Examplers[fieldType.str].comment,
             Yaml |-> [key |-> fieldKey, value |-> Examplers[fieldType.str].yaml]] >>

(***************************************************************************)
(* getFieldType returns [type, err]; err = "" is the nil error.            *)
(***************************************************************************)
IntKinds == {"int", "int8", "int16", "int32", "int64",
             "uint", "uint8", "uint16", "uint32", "uint64"}

RECURSIVE getFieldType(_)
getFieldType(t) ==
    CASE t.str = "*url.URL" -> [type |-> "url", err |-> ""]
      [] t.str = "time.Duration" -> [type |-> "duration", err |-> ""]
      [] t.str = "flagext.StringSliceCSV" -> [type |-> "string", err |-> ""]
      [] t.str = "flagext.CIDRSliceCSV" -> [type |-> "string", err |-> ""]
      [] t.str = "[]*relabel.Config" -> [type |-> "relabel_config...", err |-> ""]
      [] t.str = "ingester.ActiveSeriesCustomTrackersConfig" ->
            [type |-> "map of tracker name (string) to matcher (string)", err |-> ""]
      [] OTHER ->
            CASE t.kind = "bool" -> [type |-> "boolean", err |-> ""]
              [] t.kind \in IntKinds -> [type |-> "int", err |-> ""]
              [] t.kind \in {"float32", "float64"} -> [type |-> "float", err |-> ""]
              [] t.kind = "string" -> [type |-> "string", err |-> ""]
              [] t.kind = "slice" ->
                    LET e == getFieldType(t.elem)
                    IN  IF e.err # "" THEN [type |-> "", err |-> e.err]
                        ELSE [type |-> "list of " \o e.type, err |-> ""]
              [] t.kind = "map" ->
                    [type |-> "map of " \o t.key.str \o " to " \o t.elem.str, err |-> ""]
              [] OTHER -> [type |-> "", err |-> "unsupported data type " \o t.kind]

(***************************************************************************)
(* ReflectType returns [type, panic]: type is <<t>>, panic tells that the  *)
(* name is unknown.                                                        *)
(***************************************************************************)
ReflectTypeFloatAsInt(t) ==
    CASE t = "string" -> [type |-> <<TString>>, panic |-> FALSE]
      [] t = "url" -> [type |-> <<TURLValue>>, panic |-> FALSE]
      [] t = "duration" -> [type |-> <<TDuration>>, panic |-> FALSE]
      [] t = "time" -> [type |-> <<TTime>>, panic |-> FALSE]
      [] t = "boolean" -> [type |-> <<TBool>>, panic |-> FALSE]
      [] t = "int" -> [type |-> <<TInt>>, panic |-> FALSE]
      [] t = "float" -> [type |-> <<TInt>>, panic |-> FALSE]
      [] t = "list of string" -> [type |-> <<SliceOf(TString)>>, panic |-> FALSE]
      [] t \in {"map of string to string",
                "map of tracker name (string) to matcher (string)"} ->
            [type |-> <<MapOf(TString, TString)>>, panic |-> FALSE]
      [] t = "relabel_config..." -> [type |-> <<TRelabel>>, panic |-> FALSE]
      [] t = "map of string to float64" ->
            [type |-> <<MapOf(TString, TFloat64)>>, panic |-> FALSE]
      [] t = "list of duration" -> [type |-> <<SliceOf(TDuration)>>, panic |-> FALSE]
      [] OTHER -> [type |-> NilPtr, panic |-> TRUE]

ReflectType(t) ==
    CASE t = "string" -> [type |-> <<TString>>, panic |-> FALSE]
      [] t = "url" -> [type |-> <<TURLValue>>, panic |-> FALSE]
      [] t = "duration" -> [type |-> <<TDuration>>, panic |-> FALSE]
      [] t = "time" -> [type |-> <<TTime>>, panic |-> FALSE]
      [] t = "boolean" -> [type |-> <<TBool>>, panic |-> FALSE]
      [] t = "int" -> [type |-> <<TInt>>, panic |-> FALSE]
      [] t = "float" -> [type |-> <<TFloat64>>, panic |-> FALSE]
      [] t = "list of string" -> [type |-> <<SliceOf(TString)>>, panic |-> FALSE]
      [] t \in {"map of string to string",
                "map of tracker name (string) to matcher (string)"} ->
            [type |-> <<MapOf(TString, TString)>>, panic |-> FALSE]
      [] t = "relabel_config..." -> [type |-> <<TRelabel>>, panic |-> FALSE]
      [] t = "map of string to float64" ->
            [type |-> <<MapOf(TString, TFloat64)>>, panic |-> FALSE]
      [] t = "list of duration" -> [type |-> <<SliceOf(TDuration)>>, panic |-> FALSE]
      [] OTHER -> [type |-> NilPtr, panic |-> TRUE]

\* errors.Wrapf(err, "config=%s.%s", t.PkgPath(), t.Name())
Wrapf(e, t) == [msg |-> "config=" \o t.pkg \o "." \o t.name, cause |-> e]

(***************************************************************************)
(* The flag set and the flag registry.                                     *)
(***************************************************************************)
RECURSIVE RegisterFields(_, _, _, _)
\* the flags RegisterFlags registers for the fields i.. of the struct of type
\* t stored at addr, under the flag name prefix
RegisterFields(t, addr, prefix, i) ==
    IF i > Len(Fields(t)) THEN <<>>
    ELSE LET f == Fields(t)[i]
             own == IF f.flag = "" THEN <<>>
                    ELSE << [Name |-> prefix \o f.flag, Usage |-> "usage of " \o f.flag,
                             DefValue |-> f.defv, Value |-> f.defv,
                             ptr |-> <<addr \o <<i>>>>] >>
             sub == IF f.Type.kind = "struct" /\ f.Type \notin Wrappers
                    THEN RegisterFields(f.Type, addr \o <<i>>,
                                        prefix \o yamlFieldNameParser(f.yaml)
                                               \o (IF isFieldInline(f) THEN "" ELSE "."), 1)
                    ELSE <<>>
         IN  own \o sub \o RegisterFields(t, addr, prefix, i + 1)

\* cfg.RegisterFlags(fs, logger) followed by fs.VisitAll: the registered
\* flags; a deprecated flag holds no field and its value prints "deprecated"
RegisterFlags ==
    RegisterFields(TConfig, <<>>, "", 1)
    \o << [Name |-> "old.flag", Usage |-> "no longer used", DefValue |-> "deprecated",
           Value |-> "deprecated", ptr |-> NilPtr] >>

RECURSIVE VisitAll(_, _)
\* fs.VisitAll with the function literal of Flags, which fills the map m
VisitAll(fs, m) ==
    IF fs = <<>> THEN m
    ELSE LET f == Head(fs)
         IN  IF f.Value = "deprecated" THEN VisitAll(Tail(fs), m)
             ELSE VisitAll(Tail(fs),
                           [p \in DOMAIN m \cup {f.ptr[1]} |->
                               IF p = f.ptr[1]
                               THEN [Name |-> f.Name, Usage |-> f.Usage, DefValue |-> f.DefValue]
                               ELSE m[p]])

Flags(fs) == VisitAll(fs, [p \in {} |-> 0])

\* a variant of getFieldFlag without the nocli check
getFieldFlagIgnoringNoCli(field, fieldPtr, fl) ==
    IF fieldPtr \notin DOMAIN fl THEN NilPtr ELSE <<fl[fieldPtr]>>

getFieldFlag(field, fieldPtr, fl) ==
    IF isAbsentInCLI(field) THEN NilPtr
    ELSE IF fieldPtr \notin DOMAIN fl THEN NilPtr
    ELSE <<fl[fieldPtr]>>

isRootBlock(t) ==
    IF \E i \in 1..Len(RootBlocks) : RootBlocks[i].StructType = t
    THEN LET i == CHOOSE j \in 1..Len(RootBlocks) :
                      /\ RootBlocks[j].StructType = t
                      /\ \A k \in 1..(j-1) : RootBlocks[k].StructType # t
         IN  [rootName |-> RootBlocks[i].Name, rootDesc |-> RootBlocks[i].Desc, isRoot |-> TRUE]
    ELSE [rootName |-> "", rootDesc |-> "", isRoot |-> FALSE]

(***************************************************************************)
(* ConfigBlock and ConfigEntry.                                            *)
(***************************************************************************)
\* &ConfigBlock{Name: name, Desc: desc}
ConfigBlock(name, desc) == [Name |-> name, Desc |-> desc, Entries |-> <<>>]

\* the zero ConfigEntry
ConfigEntry ==
    [Kind |-> "", Name |-> "", Required |-> FALSE,
     Block |-> Nil, BlockDesc |-> "", Root |-> FALSE,
     FieldFlag |-> "", FieldDesc |-> "", FieldType |-> "", FieldDefault |-> "",
     FieldExample |-> NilPtr, FieldCategory |-> ""]

\* a variant of Add that puts the entry first
AddFirst(h, b, entry) == [h EXCEPT ![b].Entries = <<entry>> \o @]

\* b.Add(entry) on the block at address b of the heap h
Add(h, b, entry) == [h EXCEPT ![b].Entries = Append(@, entry)]

\* a variant of Skipped without the UnusedFlag convention
SkippedKeepsUnused(field) ==
    \/ isFieldHidden(field)
    \/ getFieldName(field) = "" /\ ~isFieldInline(field)
    \/ field.Type.kind = "func"

\* the fields Config skips before it looks at their type
Skipped(field) ==
    \/ isFieldHidden(field)
    \/ getFieldName(field) = "" /\ ~isFieldInline(field)
    \/ field.Type.kind = "func"
    \/ HasPrefix(field.Name, "UnusedFlag")

\* the types getCustomFieldEntry handles, with the FieldType it gives them
CustomTypes ==
    [x \in {TLevel, TFormat, TURLValue, TSecret, TModelDuration, TTime} |->
        CASE x \in {TLevel, TFormat} -> "string"
          [] x = TURLValue -> "url"
          [] x = TSecret -> "string"
          [] x = TModelDuration -> "duration"
          [] x = TTime -> "time"]

\* getCustomFieldEntry returns [entry, panic]: entry is the *ConfigEntry
\* (NilPtr when the type is not a custom one); panic tells that fieldFlag is
\* nil where fieldFlag.Name is evaluated
getCustomFieldEntry(field, fieldPtr, fl) ==
    IF field.Type \notin DOMAIN CustomTypes THEN [entry |-> NilPtr, panic |-> FALSE]
    ELSE LET fieldFlag == getFieldFlag(field, fieldPtr, fl)
         IN  IF fieldFlag = NilPtr THEN [entry |-> NilPtr, panic |-> TRUE]
             ELSE [entry |-> << [ConfigEntry EXCEPT
                                    !.Kind = "field",
                                    !.Name = getFieldName(field),
                                    !.Required = isFieldRequired(field),
                                    !.FieldFlag = fieldFlag[1].Name,
                                    !.FieldDesc = fieldFlag[1].Usage,
                                    !.FieldType = CustomTypes[field.Type],
                                    !.FieldDefault = getFieldDefault(field, fieldFlag[1].DefValue),
                                    !.FieldCategory = getFieldCategory(field, fieldFlag[1].Name)] >>,
                   panic |-> FALSE]

\* the entry Config adds for a leaf field of the semantic type fieldType
LeafEntry(field, fieldName, fieldType, fieldFlag) ==
    IF fieldFlag = NilPtr
    THEN [ConfigEntry EXCEPT
            !.Kind = "field",
            !.Name = fieldName,
            !.Required = isFieldRequired(field),
            !.FieldDesc = getFieldDescription(field, ""),
            !.FieldType = fieldType,
            !.FieldExample = getFieldExample(fieldName, field.Type),
            !.FieldCategory = getFieldCategory(field, "")]
    ELSE [ConfigEntry EXCEPT
            !.Kind = "field",
            !.Name = fieldName,
            !.Required = isFieldRequired(field),
            !.FieldFlag = fieldFlag[1].Name,
            !.FieldDesc = getFieldDescription(field, fieldFlag[1].Usage),
            !.FieldType = fieldType,
            !.FieldDefault = getFieldDefault(field, fieldFlag[1].DefValue),
            !.FieldExample = getFieldExample(fieldName, field.Type),
            !.FieldCategory = getFieldCategory(field, fieldFlag[1].Name)]

\* the name and description of the sub-block of a struct field that is not inline
SubBlock(field, fieldName, root) ==
    IF root.isRoot THEN ConfigBlock(root.rootName, root.rootDesc)
    ELSE ConfigBlock(fieldName, getFieldDescription(field, ""))

\* a variant of BlockEntry that names the entry of a root block as the block
BlockEntryBlockName(field, fieldName, subBlock, blockDesc, isRoot) ==
    [ConfigEntry EXCEPT
        !.Kind = "block",
        !.Name = IF isRoot THEN isRootBlock(field.Type).rootName ELSE fieldName,
        !.Required = isFieldRequired(field),
        !.Block = subBlock,
        !.BlockDesc = blockDesc,
        !.Root = isRoot]

\* the block entry Config adds for a struct field that is not inline
BlockEntry(field, fieldName, subBlock, blockDesc, isRoot) ==
    [ConfigEntry EXCEPT
        !.Kind = "block",
        !.Name = fieldName,
        !.Required = isFieldRequired(field),
        !.Block = subBlock,
        !.BlockDesc = blockDesc,
        !.Root = isRoot]

\* a variant of PromoteRoot that never appends
PromoteRootNever(blocks, isRoot, subBlock) == blocks

\* if isRoot { blocks = append(blocks, subBlock) }
PromoteRoot(blocks, isRoot, subBlock) ==
    IF isRoot THEN Append(blocks, subBlock) ELSE blocks

\* variants of MergeBlocks: the blocks of the recursive call are dropped, or
\* put in front
MergeBlocksDropped(blocks, otherBlocks) == blocks

MergeBlocksPrepended(blocks, otherBlocks) == otherBlocks \o blocks

\* blocks = append(blocks, otherBlocks...)
MergeBlocks(blocks, otherBlocks) == blocks \o otherBlocks

(***************************************************************************)
(* The inputs.                                                             *)
(***************************************************************************)
PtrT(t) == [kind |-> "ptr", str |-> "*" \o t.str, elem |-> t]

\* an interface{} value: its dynamic type (NilPtr for the nil interface) and,
\* for a pointer, whether it is nil
Value(type, nilptr) == [type |-> type, nilptr |-> nilptr]

\* &cfg for a cfg.Config
CfgOK == Value(<<PtrT(TConfig)>>, FALSE)

CfgValues ==
    { CfgOK,
      Value(<<TConfig>>, FALSE),               \* a Config passed by value
      Value(<<TInt>>, FALSE),                  \* an int
      Value(<<PtrT(TInt)>>, FALSE),            \* a pointer to an int
      Value(<<PtrT(PtrT(TConfig))>>, FALSE),   \* a pointer to a pointer
      Value(<<PtrT(TConfig)>>, TRUE),          \* a nil pointer to a Config
      Value(<<PtrT(TInt)>>, TRUE),             \* a nil pointer to an int
      Value(NilPtr, FALSE) }                   \* the nil interface

\* the declarations of cfg.Config: at most MaxFields fields of distinct names
ConfigTypes ==
    UNION { { s \in [1..n -> Pool] : \A i, j \in 1..n : i # j => s[i].Name # s[j].Name }
            : n \in 0..MaxFields }

RootBlock(name, desc, t) == [Name |-> name, Desc |-> desc, StructType |-> t]

RootRegistries ==
    { << RootBlock("store_config", "The store_config configures the store.", TStore) >>,
      << RootBlock("store_config", "The store_config configures the store.", TStore),
         RootBlock("mid_config", "The mid_config configures the middle.", TMid),
         RootBlock("config", "The whole configuration.", TConfig) >> }

\* no Aggregators value is encoded
AggIdle ==
    /\ aggs = NilPtr
    /\ format = ""
    /\ encoded = NilPtr
    /\ decoded = <<>>
    /\ prior = <<>>
    /\ decodeErr = ""

\* Backfill is not called
BfIdle ==
    /\ source = [readable |-> TRUE, es |-> <<>>]
    /\ bfPc = "unused"
    /\ bfBlock = 0
    /\ bfEntry = 0
    /\ requests = <<>>
    /\ bfErr = NilPtr

\* the type table is not in use
TypIdle ==
    /\ typ = ""
    /\ rtype = NilPtr
    /\ classified = NilPtr
    /\ typPanic = FALSE

NoResult == [status |-> "idle", blocks |-> <<>>, nilBlocks |-> TRUE, err |-> NilPtr]

\* no extraction is made: Config is not called
CfgIdle ==
    /\ cfg = CfgOK
    /\ cfgFields = <<>>
    /\ RootBlocks = <<>>
    /\ blockArg = Nil
    /\ heap = <<>>
    /\ origin = <<>>
    /\ flags = <<>>
    /\ stack = <<>>
    /\ err = NilPtr
    /\ result = [NoResult EXCEPT !.status = "unused"]

Init ==
    /\ cfg \in CfgValues
    /\ cfgFields \in ConfigTypes
    /\ cfg # CfgOK => cfgFields \in {<<>>}
    /\ RootBlocks \in RootRegistries
    /\ blockArg \in {Nil, 1}
    /\ blockArg # Nil => Len(cfgFields) <= 1
    /\ heap = IF blockArg = Nil THEN <<>> ELSE << ConfigBlock("caller", "") >>
    /\ origin = IF blockArg = Nil THEN <<>> ELSE << <<>> >>
    /\ \E fs \in {RegisterFlags} : flags = Flags(fs)
    /\ stack = <<>>
    /\ err = NilPtr
    /\ result = NoResult
    /\ TypIdle
    /\ AggIdle
    /\ BfIdle

(***************************************************************************)
(* Config.  A frame of the stack is a running call: the block it adds to,  *)
(* the struct type t and the address addr of the struct it walks, the      *)
(* index i of the field the loop is at, and its local slice blocks.        *)
(***************************************************************************)
Frame(block, t, addr, blocks) ==
    [block |-> block, t |-> t, addr |-> addr, i |-> 1, blocks |-> blocks]

Top == stack[Len(stack)]

Running == result.status = "running" /\ err = NilPtr /\ stack # <<>>

AtField == Running /\ Top.i <= Len(Fields(Top.t))

Field == Fields(Top.t)[Top.i]

\* fieldValue.Addr().Pointer()
FieldPtr == Top.addr \o <<Top.i>>

\* the loop goes on to the next field
Continue(st) == [st EXCEPT ![Len(st)].i = @ + 1]

\* return blocks, nil
Returned(blocks) == [status |-> "ok", blocks |-> blocks, nilBlocks |-> FALSE, err |-> NilPtr]

\* a variant of Failed that returns the empty list instead of nil
FailedWithBlocks(e) == [status |-> "err", blocks |-> <<>>, nilBlocks |-> FALSE, err |-> <<e>>]

\* return nil, e
Failed(e) == [status |-> "err", blocks |-> <<>>, nilBlocks |-> TRUE, err |-> <<e>>]

Panicked == [status |-> "panic", blocks |-> <<>>, nilBlocks |-> TRUE, err |-> NilPtr]

\* the error of the first shape check
NotPtr(t) == [msg |-> t.str \o " is a " \o t.kind \o " while a ptr is expected", cause |-> ""]

\* the error of the second shape check (v is the value the pointer points to)
NotStruct(t) == [msg |-> "<" \o t.str \o " Value> is a " \o t.kind \o " while a struct is expected",
                 cause |-> ""]

\* The top-level call Config(blockArg, cfg, flags), up to the loop.
Call ==
    /\ result.status = "idle"
    /\ LET fresh == Len(heap) + 1
           h == IF blockArg = Nil THEN Append(heap, ConfigBlock("", "")) ELSE heap
           o == IF blockArg = Nil THEN Append(origin, <<>>) ELSE origin
           block == IF blockArg = Nil THEN fresh ELSE blockArg
           blocks == IF blockArg = Nil THEN <<fresh>> ELSE <<>>
       IN  /\ heap' = h
           /\ origin' = o
           /\ IF cfg.type = NilPtr
              THEN \* reflect.TypeOf(cfg) is nil: Kind() panics
                   /\ result' = Panicked
                   /\ stack' = <<>>
              ELSE IF cfg.type[1].kind # "ptr"
              THEN /\ result' = Failed(NotPtr(cfg.type[1]))
                   /\ stack' = <<>>
              ELSE IF cfg.nilptr
              THEN \* Elem() of a nil pointer is the zero Value: Type() panics
                   /\ result' = Panicked
                   /\ stack' = <<>>
              ELSE IF cfg.type[1].elem.kind # "struct"
              THEN /\ result' = Failed(NotStruct(cfg.type[1].elem))
                   /\ stack' = <<>>
              ELSE /\ result' = [result EXCEPT !.status = "running"]
                   /\ stack' = << Frame(block, cfg.type[1].elem, <<>>, blocks) >>
    /\ UNCHANGED <<others, cfgFields, cfg, blockArg, RootBlocks, flags, err>>

\* A field the loop skips.
SkipField ==
    /\ AtField
    /\ Skipped(Field)
    /\ stack' = Continue(stack)
    /\ UNCHANGED <<others, cfgFields, cfg, blockArg, RootBlocks, flags, heap, err, result, origin>>

\* A field of a custom type: its entry is added, or the nil flag is dereferenced.
CustomField ==
    /\ AtField
    /\ ~Skipped(Field)
    /\ Field.Type \in DOMAIN CustomTypes
    /\ LET r == getCustomFieldEntry(Field, FieldPtr, flags)
       IN  IF r.panic
           THEN /\ result' = Panicked
                /\ stack' = <<>>
                /\ UNCHANGED <<heap, origin>>
           ELSE /\ heap' = Add(heap, Top.block, r.entry[1])
                /\ origin' = [origin EXCEPT ![Top.block] = Append(@, FieldPtr)]
                /\ stack' = Continue(stack)
                /\ UNCHANGED result
    /\ UNCHANGED <<others, cfgFields, cfg, blockArg, RootBlocks, flags, err>>

\* A struct field: the recursive call is entered.
StructField ==
    /\ AtField
    /\ ~Skipped(Field)
    /\ getCustomFieldEntry(Field, FieldPtr, flags) = [entry |-> NilPtr, panic |-> FALSE]
    /\ Field.Type.kind = "struct"
    /\ LET root == isRootBlock(Field.Type)
           fieldName == getFieldName(Field)
           subBlock == Len(heap) + 1
           new == SubBlock(Field, fieldName, root)
       IN  IF ~isFieldInline(Field)
           THEN /\ heap' = Add(Append(heap, new), Top.block,
                               BlockEntry(Field, fieldName, subBlock, new.Desc, root.isRoot))
                /\ origin' = [Append(origin, <<>>) EXCEPT ![Top.block] = Append(@, FieldPtr)]
                /\ stack' = Append([stack EXCEPT ![Len(stack)].blocks =
                                        PromoteRoot(@, root.isRoot, subBlock)],
                                   Frame(subBlock, Field.Type, FieldPtr, <<>>))
           ELSE /\ stack' = Append(stack, Frame(Top.block, Field.Type, FieldPtr, <<>>))
                /\ UNCHANGED <<heap, origin>>
    /\ UNCHANGED <<others, cfgFields, cfg, blockArg, RootBlocks, flags, err, result>>

\* A leaf field: its entry is added, or its type is not supported and the
\* call returns the wrapped error.
LeafField ==
    /\ AtField
    /\ ~Skipped(Field)
    /\ getCustomFieldEntry(Field, FieldPtr, flags) = [entry |-> NilPtr, panic |-> FALSE]
    /\ Field.Type.kind # "struct"
    /\ LET ft == getFieldType(Field.Type)
           e == Wrapf(ft.err, Top.t)
       IN  IF ft.err # ""
           THEN /\ stack' = SubSeq(stack, 1, Len(stack) - 1)
                /\ IF Len(stack) = 1
                   THEN result' = Failed(e) /\ UNCHANGED err
                   ELSE err' = <<e>> /\ UNCHANGED result
                /\ UNCHANGED <<heap, origin>>
           ELSE /\ heap' = Add(heap, Top.block,
                               LeafEntry(Field, getFieldName(Field), ft.type,
                                         getFieldFlag(Field, FieldPtr, flags)))
                /\ origin' = [origin EXCEPT ![Top.block] = Append(@, FieldPtr)]
                /\ stack' = Continue(stack)
                /\ UNCHANGED <<err, result>>
    /\ UNCHANGED <<others, cfgFields, cfg, blockArg, RootBlocks, flags>>

\* The loop is over: the call returns blocks, and its caller appends them to
\* its own and goes on.
Return ==
    /\ Running
    /\ Top.i > Len(Fields(Top.t))
    /\ IF Len(stack) = 1
       THEN /\ result' = Returned(Top.blocks)
            /\ stack' = <<>>
       ELSE /\ stack' = Continue([SubSeq(stack, 1, Len(stack) - 1) EXCEPT
                                    ![Len(stack) - 1].blocks = MergeBlocks(@, Top.blocks)])
            /\ UNCHANGED result
    /\ UNCHANGED <<others, cfgFields, cfg, blockArg, RootBlocks, flags, heap, err, origin>>

\* The recursive call returned an error: the caller returns it as it is.
Propagate ==
    /\ result.status = "running"
    /\ err # NilPtr
    /\ stack # <<>>
    /\ stack' = SubSeq(stack, 1, Len(stack) - 1)
    /\ IF Len(stack) = 1
       THEN result' = Failed(err[1]) /\ err' = NilPtr
       ELSE UNCHANGED <<err, result>>
    /\ UNCHANGED <<others, cfgFields, cfg, blockArg, RootBlocks, flags, heap, origin>>

Next ==
    \/ Call
    \/ SkipField
    \/ CustomField
    \/ StructField
    \/ LeafField
    \/ Return
    \/ Propagate

Spec == Init /\ [][Next]_vars

(***************************************************************************)
(* The type table in use: tooling asks ReflectType for the type of a       *)
(* semantic name and getFieldType for the name of a type.                  *)
(***************************************************************************)
\* the names ReflectType has a case for
TypeNames ==
    {"string", "url", "duration", "time", "boolean", "int", "float",
     "list of string", "map of string to string",
     "map of tracker name (string) to matcher (string)", "relabel_config...",
     "map of string to float64", "list of duration"}

RECURSIVE TypesUpTo(_)
\* the types with slices and maps nested at most d deep
TypesUpTo(d) ==
    IF d = 0
    THEN {TBool, TInt, TUint16, TFloat64, TString, TFunc, TChan, TIface, TDuration,
          TURLPtr, TStringSliceCSV, TLevel, TURLValue, TSecret, TModelDuration,
          TTime, TTrackers, TRelabel}
    ELSE LET prev == TypesUpTo(d - 1)
         IN  prev \cup {SliceOf(e) : e \in prev}
                  \cup {MapOf(k, v) : k \in {TString, TInt}, v \in prev}

TypInit ==
    /\ CfgIdle
    /\ AggIdle
    /\ BfIdle
    /\ \/ /\ typ \in TypeNames \cup {"list of int", "secret"}
          /\ rtype = NilPtr
       \/ /\ typ = ""
          /\ rtype \in {<<t>> : t \in TypesUpTo(MaxDepth)}
    /\ classified = NilPtr
    /\ typPanic = FALSE

\* ReflectType(typ)
Reify ==
    /\ rtype = NilPtr
    /\ ~typPanic
    /\ typ # ""
    /\ rtype' = ReflectType(typ).type
    /\ typPanic' = ReflectType(typ).panic
    /\ UNCHANGED <<cfgVars, aggVars, bfVars, typ, classified>>

\* getFieldType(rtype)
Classify ==
    /\ rtype # NilPtr
    /\ classified = NilPtr
    /\ classified' = << getFieldType(rtype[1]) >>
    /\ UNCHANGED <<cfgVars, aggVars, bfVars, typ, rtype, typPanic>>

TypNext ==
    \/ Reify
    \/ Classify

TypSpec == TypInit /\ [][TypNext]_vars

(***************************************************************************)
(* What the properties speak of.                                           *)
(***************************************************************************)
Done == result.status = "ok"

Finished == result.status \in {"ok", "err", "panic"}

\* a successful Config(nil, cfg, flags)
Extracted == Done /\ blockArg = Nil

RECURSIVE FieldIn(_, _)
FieldIn(t, p) ==
    IF Len(p) = 1 THEN Fields(t)[p[1]] ELSE FieldIn(Fields(t)[p[1]].Type, Tail(p))

\* the field stored at the address p, and the struct type that declares it
FieldAt(p) == FieldIn(TConfig, p)

DeclaringType(p) == IF Len(p) = 1 THEN TConfig ELSE FieldAt(SubSeq(p, 1, Len(p) - 1)).Type

\* a field whose type is a section: a struct that is not one of the wrappers
Section(f) == f.Type.kind = "struct" /\ f.Type \notin DOMAIN CustomTypes

\* a field marked inline by its yaml tag
Embedded(f) == yamlFieldInlineParser(f.yaml)

\* a field that is not hidden, not a function, not an UnusedFlag placeholder
Visible(f) ==
    /\ "hidden" \notin DOMAIN parseDocTag(f)
    /\ f.Type.kind # "func"
    /\ ~HasPrefix(f.Name, "UnusedFlag")

\* a visible field that has a yaml name or is inline
Documented(f) == Visible(f) /\ (getFieldName(f) # "" \/ Embedded(f))

RECURSIVE Declared(_, _)
\* the addresses of the fields declared at any depth by the struct of type t at addr
Declared(t, addr) ==
    UNION { {addr \o <<i>>} \cup
            (IF Section(Fields(t)[i]) THEN Declared(Fields(t)[i].Type, addr \o <<i>>) ELSE {})
            : i \in 1..Len(Fields(t)) }

RECURSIVE Walked(_, _)
\* the addresses of the documented fields reachable through documented sections
Walked(t, addr) ==
    UNION { IF Documented(Fields(t)[i])
            THEN {addr \o <<i>>} \cup
                 (IF Section(Fields(t)[i]) THEN Walked(Fields(t)[i].Type, addr \o <<i>>) ELSE {})
            ELSE {}
            : i \in 1..Len(Fields(t)) }

\* the places <<b, i>> of the entries of the blocks of the heap
Places == UNION { {<<b, i>> : i \in 1..Len(heap[b].Entries)} : b \in 1..Len(heap) }

EntryAt(pl) == heap[pl[1]].Entries[pl[2]]

OriginAt(pl) == origin[pl[1]][pl[2]]

\* the places of the block entries of promoted root blocks
RootPlaces == {pl \in Places : EntryAt(pl).Kind = "block" /\ EntryAt(pl).Root}

RECURSIVE Reach(_)
\* the blocks reachable from the block b through block entries
Reach(b) ==
    {b} \cup UNION { IF heap[b].Entries[i].Kind = "block" THEN Reach(heap[b].Entries[i].Block) ELSE {}
                     : i \in 1..Len(heap[b].Entries) }

\* how often the block b occurs in the returned list
Listed(b) == Cardinality({k \in 1..Len(result.blocks) : result.blocks[k] = b})

RootFields ==
    {p \in Walked(TConfig, <<>>) :
        Section(FieldAt(p)) /\ \E r \in 1..Len(RootBlocks) : RootBlocks[r].StructType = FieldAt(p).Type}

RootNameOf(t) == RootBlocks[CHOOSE r \in 1..Len(RootBlocks) : RootBlocks[r].StructType = t].Name

\* the returned list holds, after its first element, a block of the name
NamedInList(name) == \E k \in 2..Len(result.blocks) : heap[result.blocks[k]].Name = name

\* C2 as claimed: after a successful Config(nil, cfg, flags), for every field
\* of a registered root type reachable through fields that are not skipped,
\* inline or not, the list holds a block of the root's name after the first.
C2_EveryRootListed ==
    Extracted => \A p \in RootFields : NamedInList(RootNameOf(FieldAt(p).Type))

\* C2 as amended: the same for the fields that are not marked inline, each of
\* which has a block of its own in the list.
C2_EveryNestedRootListed ==
    Extracted =>
        \A p \in RootFields :
            ~Embedded(FieldAt(p)) =>
                /\ NamedInList(RootNameOf(FieldAt(p).Type))
                /\ \E pl \in RootPlaces : OriginAt(pl) = p /\ Listed(EntryAt(pl).Block) = 1

\* a root field two sections below the top
C2_Witness ==
    /\ Extracted
    /\ \E p \in RootFields : Len(p) >= 3 /\ ~Embedded(FieldAt(p))

(***************************************************************************)
(* C3.  The first block.                                                   *)
(***************************************************************************)
\* the addresses of the fields that have an entry in the blocks reachable from b
Expansion(b) == {OriginAt(pl) : pl \in {q \in Places : q[1] \in Reach(b)}}

\* C3: after a successful Config(nil, cfg, flags) the first element of the
\* list is the block allocated for cfg itself, which is not named after a
\* root and does not occur again, and the blocks reachable from it hold an
\* entry for every documented field that is not an inline section.
C3_FirstBlockIsConfig ==
    Extracted =>
        /\ Len(result.blocks) >= 1
        /\ result.blocks[1] = 1
        /\ heap[1].Name = ""
        /\ Listed(1) = 1
        /\ Expansion(result.blocks[1])
             = {p \in Walked(TConfig, <<>>) : ~(Section(FieldAt(p)) /\ Embedded(FieldAt(p)))}

\* the type of cfg is itself a registered root and nests a root
C3_Witness ==
    /\ Extracted
    /\ \E r \in 1..Len(RootBlocks) : RootBlocks[r].StructType = TConfig
    /\ Len(result.blocks) >= 2
    /\ \E p \in Expansion(result.blocks[1]) : Len(p) >= 2

(***************************************************************************)
(* C4.  The flag name of a field entry.                                    *)
(***************************************************************************)
FieldPlaces == {pl \in Places : EntryAt(pl).Kind = "field"}

NoCli(f) == "nocli" \in DOMAIN parseDocTag(f)

\* C4: a field entry has a flag name exactly when its field is not marked
\* nocli and its address is a key of the flag registry, and the entry of a
\* nocli field has neither flag name nor default.
C4_FlagIffRegistered ==
    \A pl \in FieldPlaces :
        LET f == FieldAt(OriginAt(pl))
        IN  /\ EntryAt(pl).FieldFlag # "" <=> (~NoCli(f) /\ OriginAt(pl) \in DOMAIN flags)
            /\ NoCli(f) => EntryAt(pl).FieldFlag = "" /\ EntryAt(pl).FieldDefault = ""

\* a nocli field whose address is registered has its entry
C4_Witness ==
    /\ Done
    /\ \E pl \in FieldPlaces : NoCli(FieldAt(OriginAt(pl))) /\ OriginAt(pl) \in DOMAIN flags
    /\ \E pl \in FieldPlaces : EntryAt(pl).FieldFlag # ""

(***************************************************************************)
(* C5.  A field without a flag.                                            *)
(***************************************************************************)
\* C5 as claimed: a field that has no flag is no failure, whatever its kind:
\* the extraction of a pointer to a struct does not crash.
C5_NoFlagIsNoFailure == cfg = CfgOK => result.status # "panic"

(***************************************************************************)
(* C6.  The flag and the default of a field entry.                         *)
(***************************************************************************)
\* C6: the entry of a field that is not nocli and whose address is in the
\* flag registry carries the registered flag's name, and as default the
\* non-empty default of the doc tag if there is one, else the flag's default.
C6_FlagRoundTrip ==
    \A pl \in FieldPlaces :
        LET f == FieldAt(OriginAt(pl))
            p == OriginAt(pl)
            doc == parseDocTag(f)
        IN  (p \in DOMAIN flags /\ ~NoCli(f)) =>
                /\ EntryAt(pl).FieldFlag = flags[p].Name
                /\ EntryAt(pl).FieldDefault =
                      IF "default" \in DOMAIN doc /\ doc["default"] # ""
                      THEN doc["default"] ELSE flags[p].DefValue

\* a leaf and a wrapper whose documented defaults replace the flags' defaults
C6_Witness ==
    /\ Done
    /\ \E p1, p2 \in FieldPlaces :
          /\ FieldAt(OriginAt(p1)).Type \notin DOMAIN CustomTypes
          /\ FieldAt(OriginAt(p2)).Type \in DOMAIN CustomTypes
          /\ OriginAt(p1) \in DOMAIN flags
          /\ EntryAt(p1).FieldDefault = "3" /\ flags[OriginAt(p1)].DefValue = "5"
          /\ EntryAt(p2).FieldDefault = "1h" /\ flags[OriginAt(p2)].DefValue = "15m"

(***************************************************************************)
(* C7.  Completeness.                                                      *)
(***************************************************************************)
\* how many entries of the blocks reachable from the first block were built
\* from the field at the address p
Count(p) ==
    Cardinality({pl \in Places : pl[1] \in Reach(result.blocks[1]) /\ OriginAt(pl) = p})

\* the field at p has one entry, or is an inline section (whose fields are
\* fields of their own) and has none
Appears(p) ==
    IF Section(FieldAt(p)) /\ Embedded(FieldAt(p)) THEN Count(p) = 0 ELSE Count(p) = 1

\* C7 as claimed: after a successful extraction every field declared at any
\* depth that is not hidden, not a function and not an UnusedFlag placeholder
\* appears exactly once, and none of the others appears.
C7_EveryVisibleFieldOnce ==
    Extracted =>
        \A p \in Declared(TConfig, <<>>) :
            IF Visible(FieldAt(p)) THEN Appears(p) ELSE Count(p) = 0

\* C7 as amended: after a successful extraction every field that is not
\* hidden, not a function, not an UnusedFlag placeholder, has a yaml name or
\* is inline, and is reachable through sections of which the same is true,
\* appears exactly once; no other declared field appears.
C7_EveryDocumentedFieldOnce ==
    Extracted =>
        LET walked == Walked(TConfig, <<>>)
        IN  \A p \in Declared(TConfig, <<>>) :
                IF p \in walked THEN Appears(p) ELSE Count(p) = 0

\* a visible field without a yaml name beside an inline section whose fields
\* have their entries
C7_Witness ==
    /\ Extracted
    /\ \E p \in Declared(TConfig, <<>>) : Visible(FieldAt(p)) /\ ~Documented(FieldAt(p))
    /\ \E p \in Walked(TConfig, <<>>) :
          /\ Section(FieldAt(p)) /\ Embedded(FieldAt(p))
          /\ \E q \in Walked(TConfig, <<>>) : Len(q) > Len(p) /\ Count(q) = 1

(***************************************************************************)
(* C8.  Inline sections.                                                   *)
(***************************************************************************)
RECURSIVE Owner(_)
\* the address of the innermost section around the field at p that is not
\* inline; <<>> is the top-level value
Owner(p) ==
    LET q == SubSeq(p, 1, Len(p) - 1)
    IN  IF q = <<>> THEN <<>> ELSE IF Embedded(FieldAt(q)) THEN Owner(q) ELSE q

RECURSIVE Before(_, _)
\* the field at p is declared, in the order of the walk, before the one at q
Before(p, q) ==
    IF p = <<>> THEN q # <<>>
    ELSE IF q = <<>> THEN FALSE
    ELSE Head(p) < Head(q) \/ (Head(p) = Head(q) /\ Before(Tail(p), Tail(q)))

BlockPlaces == {pl \in Places : EntryAt(pl).Kind = "block"}

\* C8: an inline section has no block entry and no block of its own: a block
\* is allocated only for the top-level value and for each block entry; every
\* entry is in the block of the innermost section around its field that is
\* not inline, in the order of the declarations; and every block of the
\* returned list after the first is referenced by a block entry, so that an
\* inline section of a root type is not in the list.
C8_InlineFolds ==
    LET blockPlaces == BlockPlaces
    IN
    /\ \A pl \in blockPlaces : ~Embedded(FieldAt(OriginAt(pl)))
    /\ Len(heap) = (IF result.status = "idle" /\ blockArg = Nil THEN 0 ELSE 1)
                   + Cardinality(blockPlaces)
    /\ \A pl \in Places :
          LET q == Owner(OriginAt(pl))
          IN  IF q = <<>> THEN pl[1] = 1
              ELSE \E bp \in blockPlaces : OriginAt(bp) = q /\ EntryAt(bp).Block = pl[1]
    /\ \A b \in 1..Len(heap) :
          \A i, j \in 1..Len(origin[b]) : i < j => Before(origin[b][i], origin[b][j])
    /\ Done => \A k \in 2..Len(result.blocks) :
                  \E pl \in RootPlaces : EntryAt(pl).Block = result.blocks[k]

\* an inline section of a registered root type between or beside other
\* fields: its entries are in the first block and the list holds no other
C8_Witness ==
    /\ Extracted
    /\ Len(result.blocks) = 1
    /\ Len(heap) = 1
    /\ \E p \in RootFields : Embedded(FieldAt(p)) /\ Len(p) = 1
    /\ \E i, j \in 1..Len(origin[1]) : Len(origin[1][i]) = 1 /\ Len(origin[1][j]) = 2

(***************************************************************************)
(* C9.  The shape check.                                                   *)
(***************************************************************************)
\* cfg holds a value that is not a pointer, or a pointer to something that
\* is not a struct
BadShape ==
    /\ cfg.type # NilPtr
    /\ \/ cfg.type[1].kind # "ptr"
       \/ cfg.type[1].elem.kind # "struct"

\* Config returned an error and a nil list and left the caller's block alone
Refused ==
    /\ result.status = "err"
    /\ result.err # NilPtr
    /\ result.nilBlocks
    /\ blockArg # Nil => heap[blockArg].Entries = <<>>

Unsupported ==
    {p \in Walked(TConfig, <<>>) :
        /\ FieldAt(p).Type.kind # "struct"
        /\ FieldAt(p).Type \notin DOMAIN CustomTypes
        /\ getFieldType(FieldAt(p).Type).err # ""}

\* the top-level call returned a nil list and the error of an unsupported
\* field, wrapped once with the type that declares the field
TypeErrorReturned ==
    /\ result.status = "err"
    /\ result.nilBlocks
    /\ \E p \in Unsupported :
          result.err = << Wrapf(getFieldType(FieldAt(p).Type).err, DeclaringType(p)) >>

\* C10 as claimed: if a documented leaf field at any depth has a type that
\* getFieldType cannot classify, the top-level call returns a nil list and
\* the error that names the declaring section.
C10_TypeErrorAborts == (cfg = CfgOK /\ Finished /\ Unsupported # {}) => TypeErrorReturned

\* the same for the extractions that do not crash
C10_TypeErrorAbortsUnlessPanic ==
    (cfg = CfgOK /\ Finished /\ result.status # "panic" /\ Unsupported # {}) => TypeErrorReturned

\* an error on its way up is returned by every caller as it is
C10_ErrorUnchanged == [][err # NilPtr => (err' = err \/ (err' = NilPtr /\ result'.err = err))]_vars


(***************************************************************************)
(* C11: ReflectType followed by getFieldType.                              *)
(***************************************************************************)
\* the names whose type getFieldType does not name back
NotRoundTripped == {"url", "time", "map of tracker name (string) to matcher (string)"}

\* C11 as stated: for every semantic type name that ReflectType accepts,
\* getFieldType(ReflectType(name)) succeeds and returns exactly that name.
C11_ReifyClassifyRoundTrip ==
    (typ \in TypeNames /\ classified # NilPtr) =>
        classified[1] = [type |-> typ, err |-> ""]

\* C11 amended: ReflectType accepts every one of the thirteen names without
\* panicking; for all of them but "url", "time" and "map of tracker name
\* (string) to matcher (string)", getFieldType of the returned type succeeds
\* and returns exactly that name; for "url" and "time" it returns the error
\* "unsupported data type struct", and for the tracker map it returns
\* "map of string to string".
C11_RoundTripButWrappers ==
    typ \in TypeNames =>
        /\ ~typPanic
        /\ classified # NilPtr =>
              classified[1] =
                 CASE typ \in {"url", "time"} ->
                        [type |-> "", err |-> "unsupported data type struct"]
                   [] typ = "map of tracker name (string) to matcher (string)" ->
                        [type |-> "map of string to string", err |-> ""]
                   [] OTHER -> [type |-> typ, err |-> ""]

\* C11 witness: "float" has been reified and classified back to "float"
C11_Witness ==
    /\ typ = "float"
    /\ rtype = <<TFloat64>>
    /\ classified = << [type |-> "float", err |-> ""] >>
(***************************************************************************)
(* C12.  The category of a field entry.                                    *)
(***************************************************************************)
\* the name of the flag Config associates with the field stored at addr
FlagNameOf(addr) ==
    IF ~NoCli(FieldAt(addr)) /\ addr \in DOMAIN flags THEN flags[addr].Name ELSE ""

\* the category-override table's value for a flag name exists
Overridden(name) == name \in DOMAIN Overrides

\* C12 as claimed: every field entry's FieldCategory is the override table's
\* value for the field's flag name when one exists, otherwise the field's
\* category annotation when present, otherwise "basic", never the empty string.
C12_CategoryOrBasic ==
    \A pl \in FieldPlaces :
        LET f == FieldAt(OriginAt(pl))
            name == FlagNameOf(OriginAt(pl))
        IN  /\ EntryAt(pl).FieldCategory # ""
            /\ EntryAt(pl).FieldCategory =
                  IF Overridden(name) THEN Overrides[name]
                  ELSE IF f.category # "" THEN f.category ELSE "basic"

\* C12 amended: every field entry's FieldCategory is the override table's
\* value for the field's flag name when one exists, otherwise the field's
\* category annotation when present, otherwise the empty string.
C12_CategoryOrEmpty ==
    \A pl \in FieldPlaces :
        LET f == FieldAt(OriginAt(pl))
            name == FlagNameOf(OriginAt(pl))
        IN  EntryAt(pl).FieldCategory =
               IF Overridden(name) THEN Overrides[name]
               ELSE IF f.category # "" THEN f.category ELSE ""

\* C12 witness: one run has emitted an entry whose override beats another
\* annotation, an annotated entry without a flag, and one with neither
C12_Witness ==
    /\ Done
    /\ \E pl \in FieldPlaces :
          /\ Overridden(FlagNameOf(OriginAt(pl)))
          /\ FieldAt(OriginAt(pl)).category \notin {"", Overrides[FlagNameOf(OriginAt(pl))]}
    /\ \E pl \in FieldPlaces :
          /\ FlagNameOf(OriginAt(pl)) = ""
          /\ FieldAt(OriginAt(pl)).category # ""
          /\ EntryAt(pl).FieldCategory = FieldAt(OriginAt(pl)).category
    /\ \E pl \in FieldPlaces :
          /\ ~Overridden(FlagNameOf(OriginAt(pl)))
          /\ EntryAt(pl).FieldFlag # ""
          /\ EntryAt(pl).FieldCategory = ""
(***************************************************************************)
(* C13.  Declaration order.                                                *)
(***************************************************************************)
\* the entries of every block are those of the fields recorded for them, in
\* the order of the declarations
InDeclarationOrder ==
    \A b \in 1..Len(heap) :
        /\ Len(origin[b]) = Len(heap[b].Entries)
        /\ \A i \in 1..Len(heap[b].Entries) :
              heap[b].Entries[i].Name = getFieldName(FieldAt(origin[b][i]))
        /\ \A i, j \in 1..Len(heap[b].Entries) :
              i < j => Before(origin[b][i], origin[b][j])

\* a step only appends to the entries of the blocks there are
AppendOnly ==
    \A b \in 1..Len(heap) :
        /\ b <= Len(heap')
        /\ Len(heap'[b].Entries) >= Len(heap[b].Entries)
        /\ SubSeq(heap'[b].Entries, 1, Len(heap[b].Entries)) = heap[b].Entries

\* C13: in every ConfigBlock, Entries is in the declaration order of the
\* fields it was built from (the entries folded in from an inline section
\* stand where the section is declared), and entries are only ever
\* appended, never reordered or removed.
C13_DeclarationOrder == []InDeclarationOrder /\ [][AppendOnly]_vars

\* C13 witness: a block of a finished extraction holds an entry folded in
\* from an inline section before an entry of a field declared after it
C13_Witness ==
    /\ Done
    /\ \E b \in 1..Len(heap) : \E i, j \in 1..Len(heap[b].Entries) :
          /\ i < j
          /\ Len(origin[b][i]) > Len(origin[b][j])
          /\ heap[b].Entries[i].Name # heap[b].Entries[j].Name
(***************************************************************************)
(* C14.  Sibling names.                                                    *)
(***************************************************************************)
\* a documented field that gets an entry: not an inline section
Entered(f) == ~(Section(f) /\ Embedded(f))

\* the documented fields that feed one block, a section's own and those of
\* its inline sub-sections, are declared with pairwise distinct yaml names
UniqueDeclared ==
    \A p, q \in Walked(TConfig, <<>>) :
        (/\ p # q
         /\ Owner(p) = Owner(q)
         /\ Entered(FieldAt(p))
         /\ Entered(FieldAt(q))) => getFieldName(FieldAt(p)) # getFieldName(FieldAt(q))

UniqueSiblings ==
    \A b \in 1..Len(heap) : \A i, j \in 1..Len(heap[b].Entries) :
        i # j => heap[b].Entries[i].Name # heap[b].Entries[j].Name

\* C14 as claimed: in every ConfigBlock produced by one extraction run, no
\* two entries have the same Name, the entries folded in from inline
\* sub-sections included.
C14_UniqueSiblingNames == UniqueSiblings

\* C14 amended: when the documented fields that feed one block (a section's
\* own fields and the fields of its inline sub-sections) are declared with
\* pairwise distinct yaml names, no two entries of a ConfigBlock have the
\* same Name.
C14_UniqueWhenDeclaredUnique == UniqueSiblings \/ ~UniqueDeclared

\* C14 witness: declarations with distinct names, and a block of a finished
\* extraction with entries folded in from an inline section beside its own
C14_Witness ==
    /\ Done
    /\ UniqueDeclared
    /\ \E b \in 1..Len(heap) : \E i, j \in 1..Len(heap[b].Entries) :
          Len(origin[b][i]) # Len(origin[b][j])
(***************************************************************************)
(* Package validation: Aggregators and its JSON and YAML encodings.  An    *)
(* Aggregators value is a sequence of [Url, Metrics], Metrics a set of     *)
(* strings (the keys of the map); AggregatorsEncoded is a sequence of      *)
(* [Url, Metrics], Metrics a sequence.                                     *)
(***************************************************************************)
Aggregator(url, metrics) == [Url |-> url, Metrics |-> metrics]

RECURSIVE Orders(_)
\* the orders in which ranging over a map with the keys S may visit them
Orders(S) ==
    IF S = {} THEN { <<>> }
    ELSE UNION { { <<x>> \o o : o \in Orders(S \ {x}) } : x \in S }

RECURSIVE getEncoded(_)
\* a.getEncoded(): the values it may return, one for each order of the maps
getEncoded(a) ==
    IF a = <<>> THEN { <<>> }
    ELSE { << [Url |-> Head(a).Url, Metrics |-> o] >> \o rest :
             o \in Orders(Head(a).Metrics), rest \in getEncoded(Tail(a)) }

\* the set of the elements of a sequence
Range(q) == { q[i] : i \in 1..Len(q) }

\* a variant of applyEncoded without the reset
applyEncodedNoReset(a, aggsEnc) ==
    a \o [i \in 1..Len(aggsEnc) |-> Aggregator(aggsEnc[i].Url, Range(aggsEnc[i].Metrics))]

\* a.applyEncoded(aggsEnc): the value of *a afterwards
applyEncoded(a, aggsEnc) ==
    SubSeq(a, 1, 0)
    \o [i \in 1..Len(aggsEnc) |-> Aggregator(aggsEnc[i].Url, Range(aggsEnc[i].Metrics))]

(***************************************************************************)
(* encoding/json on AggregatorsEncoded.  Marshal writes compact text and   *)
(* escapes the quote, the backslash and the characters <, > and &;         *)
(* Unmarshal parses any JSON value and then fills the struct.              *)
(***************************************************************************)
RECURSIVE jsonEscape(_)
jsonEscape(s) ==
    LET c == Head(s)
        escaped == CASE c = "\"" -> "\\\""
                     [] c = "\\" -> "\\\\"
                     [] c = "<" -> "\\u003c"
                     [] c = ">" -> "\\u003e"
                     [] c = "&" -> "\\u0026"
                     [] OTHER -> c
    IN  IF s = "" THEN "" ELSE escaped \o jsonEscape(Tail(s))

jsonString(s) == "\"" \o jsonEscape(s) \o "\""

RECURSIVE Join(_, _)
\* strings.Join
Join(q, sep) ==
    IF q = <<>> THEN ""
    ELSE IF Len(q) = 1 THEN q[1]
    ELSE q[1] \o sep \o Join(Tail(q), sep)

\* json.Marshal(aggsEnc)
jsonMarshal(aggsEnc) ==
    LET jsonAggregator(e) ==
            "{\"url\":" \o jsonString(e.Url) \o ",\"metrics\":["
            \o Join([i \in 1..Len(e.Metrics) |-> jsonString(e.Metrics[i])], ",") \o "]}"
    IN  "{\"aggregators\":["
        \o Join([i \in 1..Len(aggsEnc) |-> jsonAggregator(aggsEnc[i])], ",") \o "]}"

\* a parsed JSON value
\* (k is "str", "arr", "obj" or "null"; s is the text of a string, items
\* the elements of an array or the members of an object)
JVal(k, s, items) == [k |-> k, s |-> s, items |-> items]

\* the result of a parsing step: ok, the value, and the index after it
Parsed(v, next) == [ok |-> TRUE, val |-> v, next |-> next]
NotParsed == [ok |-> FALSE, val |-> JVal("null", "", <<>>), next |-> 0]

RECURSIVE jsonScanString(_, _, _)
\* the string literal whose opening quote is before index i of t
jsonScanString(t, i, acc) ==
    LET jsonUnescapes == [x \in {"u003c", "u003e", "u0026"} |->
                            CASE x = "u003c" -> "<" [] x = "u003e" -> ">" [] OTHER -> "&"]
    IN
    IF i > Len(t) THEN NotParsed
    ELSE IF Char(t, i) = "\"" THEN Parsed(JVal("str", acc, <<>>), i + 1)
    ELSE IF Char(t, i) = "\\"
    THEN IF i + 1 <= Len(t) /\ Char(t, i + 1) \in {"\"", "\\", "/"}
         THEN jsonScanString(t, i + 2, acc \o Char(t, i + 1))
         ELSE IF i + 5 <= Len(t) /\ SubSeq(t, i + 1, i + 5) \in DOMAIN jsonUnescapes
         THEN jsonScanString(t, i + 6, acc \o jsonUnescapes[SubSeq(t, i + 1, i + 5)])
         ELSE NotParsed
    ELSE jsonScanString(t, i + 1, acc \o Char(t, i))

RECURSIVE jsonValue(_, _), jsonElements(_, _, _), jsonMembers(_, _, _)
\* the JSON value that starts at index i of t
jsonValue(t, i) ==
    IF i > Len(t) THEN NotParsed
    ELSE CASE Char(t, i) = "\"" -> jsonScanString(t, i + 1, "")
           [] Char(t, i) = "[" ->
                IF i + 1 <= Len(t) /\ Char(t, i + 1) = "]" THEN Parsed(JVal("arr", "", <<>>), i + 2)
                ELSE jsonElements(t, i + 1, <<>>)
           [] Char(t, i) = "{" ->
                IF i + 1 <= Len(t) /\ Char(t, i + 1) = "}" THEN Parsed(JVal("obj", "", <<>>), i + 2)
                ELSE jsonMembers(t, i + 1, <<>>)
           [] i + 3 <= Len(t) /\ SubSeq(t, i, i + 3) = "null" -> Parsed(JVal("null", "", <<>>), i + 4)
           [] OTHER -> NotParsed

\* the elements of an array from index i on, after those of acc
jsonElements(t, i, acc) ==
    LET e == jsonValue(t, i)
    IN  IF ~e.ok \/ e.next > Len(t) THEN NotParsed
        ELSE IF Char(t, e.next) = "," THEN jsonElements(t, e.next + 1, Append(acc, e.val))
        ELSE IF Char(t, e.next) = "]" THEN Parsed(JVal("arr", "", Append(acc, e.val)), e.next + 1)
        ELSE NotParsed

\* the members of an object from index i on, after those of acc
jsonMembers(t, i, acc) ==
    IF i > Len(t) \/ Char(t, i) # "\"" THEN NotParsed
    ELSE LET key == jsonScanString(t, i + 1, "")
         IN  IF ~key.ok \/ key.next > Len(t) \/ Char(t, key.next) # ":" THEN NotParsed
             ELSE LET e == jsonValue(t, key.next + 1)
                      m == Append(acc, [key |-> key.val.s, val |-> e.val])
                  IN  IF ~e.ok \/ e.next > Len(t) THEN NotParsed
                      ELSE IF Char(t, e.next) = "," THEN jsonMembers(t, e.next + 1, m)
                      ELSE IF Char(t, e.next) = "}" THEN Parsed(JVal("obj", "", m), e.next + 1)
                      ELSE NotParsed

\* the value of the last member of an object with the given key, if any
Member(obj, key) ==
    LET found == {i \in 1..Len(obj.items) : obj.items[i].key = key}
    IN  IF found = {} THEN NilPtr
        ELSE << obj.items[CHOOSE i \in found : \A j \in found : j <= i].val >>

\* filling a Go value from a parsed document: [ok, val]
Filled(v) == [ok |-> TRUE, val |-> v]
Mismatch == [ok |-> FALSE, val |-> <<>>]

\* into a string
fillString(v) ==
    CASE v.k = "str" -> Filled(v.s)
      [] v.k = "null" -> Filled("")
      [] OTHER -> Mismatch

\* into a []string
fillStrings(v) ==
    CASE v.k = "null" -> Filled(<<>>)
      [] v.k = "arr" ->
            IF \A i \in 1..Len(v.items) : fillString(v.items[i]).ok
            THEN Filled([i \in 1..Len(v.items) |-> fillString(v.items[i]).val])
            ELSE Mismatch
      [] OTHER -> Mismatch

\* into an AggregatorEncoded, by the keys "url" and "metrics" of its tags
fillAggregatorEncoded(v) ==
    CASE v.k = "null" -> Filled([Url |-> "", Metrics |-> <<>>])
      [] v.k = "obj" ->
            LET url == IF Member(v, "url") = NilPtr THEN Filled("")
                       ELSE fillString(Member(v, "url")[1])
                metrics == IF Member(v, "metrics") = NilPtr THEN Filled(<<>>)
                           ELSE fillStrings(Member(v, "metrics")[1])
            IN  IF url.ok /\ metrics.ok
                THEN Filled([Url |-> url.val, Metrics |-> metrics.val])
                ELSE Mismatch
      [] OTHER -> Mismatch

\* into an AggregatorsEncoded, by the key "aggregators" of its tag
fillAggregatorsEncoded(v) ==
    CASE v.k = "null" -> Filled(<<>>)
      [] v.k = "obj" ->
            IF Member(v, "aggregators") = NilPtr THEN Filled(<<>>)
            ELSE LET list == Member(v, "aggregators")[1]
                 IN  CASE list.k = "null" -> Filled(<<>>)
                       [] list.k = "arr" ->
                            IF \A i \in 1..Len(list.items) :
                                   fillAggregatorEncoded(list.items[i]).ok
                            THEN Filled([i \in 1..Len(list.items) |->
                                            fillAggregatorEncoded(list.items[i]).val])
                            ELSE Mismatch
                       [] OTHER -> Mismatch
      [] OTHER -> Mismatch

\* json.Unmarshal(s, &aggsEnc): [ok, val]
jsonUnmarshal(s) ==
    LET p == jsonValue(s, 1)
    IN  IF p.ok /\ p.next = Len(s) + 1 THEN fillAggregatorsEncoded(p.val) ELSE Mismatch

(***************************************************************************)
(* gopkg.in/yaml.v2 on AggregatorsEncoded.  Marshal writes block style: a  *)
(* string is written plain when it resolves to a string and may start a    *)
(* plain scalar, double-quoted when it would resolve to another type (the  *)
(* empty string, a number, a boolean, null), single-quoted when its first  *)
(* character is an indicator; an empty sequence is written [].             *)
(***************************************************************************)
\* resolve("", s) gives the tag !!str
yamlResolvesToString(s) ==
    /\ s \notin {"", "~", "null", "Null", "NULL", "true", "True", "TRUE",
                 "false", "False", "FALSE", "y", "Y", "yes", "Yes", "YES", "on", "On", "ON",
                 "n", "N", "no", "No", "NO", "off", "Off", "OFF"}
    /\ \E i \in 1..Len(s) :
          Char(s, i) \notin {"0", "1", "2", "3", "4", "5", "6", "7", "8", "9"}

\* the characters that may not start a plain scalar
yamlIndicators ==
    {"\"", "'", "#", ",", "[", "]", "{", "}", "&", "*", "!", "|", ">", "%", "@"}

yamlPlainAllowed(s) ==
    /\ s # ""
    /\ Char(s, 1) \notin yamlIndicators \cup {" "}
    /\ Char(s, Len(s)) \notin {" ", ":"}
    /\ ~(Char(s, 1) \in {"-", "?", ":"} /\ (Len(s) = 1 \/ Char(s, 2) = " "))
    /\ \A i \in 1..(Len(s) - 1) : SubSeq(s, i, i + 1) \notin {": ", " #"}

RECURSIVE yamlDoubleEscape(_)
yamlDoubleEscape(s) ==
    LET c == Head(s)
        escaped == CASE c = "\"" -> "\\\"" [] c = "\\" -> "\\\\" [] OTHER -> c
    IN  IF s = "" THEN "" ELSE escaped \o yamlDoubleEscape(Tail(s))

RECURSIVE yamlSingleEscape(_)
yamlSingleEscape(s) ==
    IF s = "" THEN ""
    ELSE (IF Head(s) = "'" THEN "''" ELSE Head(s)) \o yamlSingleEscape(Tail(s))

\* a string scalar as the emitter writes it
yamlScalar(s) ==
    IF ~yamlResolvesToString(s) THEN "\"" \o yamlDoubleEscape(s) \o "\""
    ELSE IF yamlPlainAllowed(s) THEN s
    ELSE "'" \o yamlSingleEscape(s) \o "'"

\* yaml.Marshal of the value MarshalYAML returns, a pointer to aggsEnc
yamlMarshal(aggsEnc) ==
    LET yamlAggregator(e) ==
            "- url: " \o yamlScalar(e.Url) \o "\n"
            \o (IF e.Metrics = <<>> THEN "  metrics: []\n"
                ELSE "  metrics:\n"
                     \o Join([i \in 1..Len(e.Metrics) |->
                                 "  - " \o yamlScalar(e.Metrics[i]) \o "\n"], ""))
    IN  IF aggsEnc = <<>> THEN "aggregators: []\n"
        ELSE "aggregators:\n"
             \o Join([i \in 1..Len(aggsEnc) |-> yamlAggregator(aggsEnc[i])], "")

RECURSIVE Indent(_)
\* the number of leading spaces of a line
Indent(l) == IF l # "" /\ Head(l) = " " THEN 1 + Indent(Tail(l)) ELSE 0

\* the lines of a document that are not empty, each with its indentation
yamlLines(s) ==
    LET all == Split(s, "\n")
        kept == SelectSeq(all, LAMBDA l : l # "")
    IN  [i \in 1..Len(kept) |->
            [ind |-> Indent(kept[i]),
             text |-> SubSeq(kept[i], Indent(kept[i]) + 1, Len(kept[i]))]]

\* a line that starts an item of a block sequence
yamlIsItem(t) == t = "-" \/ HasPrefix(t, "- ")

\* the index of the colon that ends the key of a "key: value" line, 0 when
\* the line has no key
yamlKeyEnd(t) ==
    LET ends == {i \in 1..Len(t) : Char(t, i) = ":" /\ (i = Len(t) \/ Char(t, i + 1) = " ")}
    IN  IF t = "" \/ Char(t, 1) \in {"\"", "'"} \/ ends = {} THEN 0
        ELSE CHOOSE i \in ends : \A j \in ends : i <= j

RECURSIVE yamlScanDouble(_, _, _)
\* the double-quoted scalar whose opening quote is before index i of t
yamlScanDouble(t, i, acc) ==
    IF i > Len(t) THEN NotParsed
    ELSE IF Char(t, i) = "\"" THEN Parsed(JVal("str", acc, <<>>), i + 1)
    ELSE IF Char(t, i) = "\\"
    THEN IF i + 1 <= Len(t) /\ Char(t, i + 1) \in {"\"", "\\", "/"}
         THEN yamlScanDouble(t, i + 2, acc \o Char(t, i + 1))
         ELSE NotParsed
    ELSE yamlScanDouble(t, i + 1, acc \o Char(t, i))

RECURSIVE yamlScanSingle(_, _, _)
\* the single-quoted scalar whose opening quote is before index i of t
yamlScanSingle(t, i, acc) ==
    IF i > Len(t) THEN NotParsed
    ELSE IF Char(t, i) = "'"
    THEN IF i + 1 <= Len(t) /\ Char(t, i + 1) = "'"
         THEN yamlScanSingle(t, i + 2, acc \o "'")
         ELSE Parsed(JVal("str", acc, <<>>), i + 1)
    ELSE yamlScanSingle(t, i + 1, acc \o Char(t, i))

\* a value written on one line: a scalar, [] or {}; a plain scalar read into
\* a string keeps its text, whatever it resolves to, unless it is null
yamlInline(t) ==
    LET whole(p) == IF p.ok /\ p.next = Len(t) + 1 THEN p ELSE NotParsed
    IN  CASE t = "[]" -> Parsed(JVal("arr", "", <<>>), Len(t) + 1)
          [] t = "{}" -> Parsed(JVal("obj", "", <<>>), Len(t) + 1)
          [] t \in {"", "~", "null", "Null", "NULL"} -> Parsed(JVal("null", "", <<>>), Len(t) + 1)
          [] Char(t, 1) = "\"" -> whole(yamlScanDouble(t, 2, ""))
          [] Char(t, 1) = "'" -> whole(yamlScanSingle(t, 2, ""))
          [] Char(t, 1) \in yamlIndicators -> NotParsed
          [] OTHER -> Parsed(JVal("str", t, <<>>), Len(t) + 1)

RECURSIVE yamlNode(_, _), yamlSequence(_, _, _, _), yamlMapping(_, _, _, _)
\* the node that starts at line i; next is the index of the line after it
yamlNode(lines, i) ==
    IF i > Len(lines) THEN Parsed(JVal("null", "", <<>>), i)
    ELSE IF yamlIsItem(lines[i].text) THEN yamlSequence(lines, i, lines[i].ind, <<>>)
    ELSE IF yamlKeyEnd(lines[i].text) > 0 THEN yamlMapping(lines, i, lines[i].ind, <<>>)
    ELSE LET v == yamlInline(lines[i].text)
         IN  IF v.ok THEN Parsed(v.val, i + 1) ELSE NotParsed

\* the items of the block sequence indented by ind, from line i on
yamlSequence(lines, i, ind, acc) ==
    IF i > Len(lines) \/ lines[i].ind # ind \/ ~yamlIsItem(lines[i].text)
    THEN Parsed(JVal("arr", "", acc), i)
    ELSE LET t == lines[i].text
             rest == IF Len(t) <= 2 THEN "" ELSE SubSeq(t, 3, Len(t))
             e == IF rest = ""
                  THEN IF i + 1 <= Len(lines) /\ lines[i + 1].ind > ind
                       THEN yamlNode(lines, i + 1)
                       ELSE Parsed(JVal("null", "", <<>>), i + 1)
                  ELSE yamlNode([lines EXCEPT ![i] = [ind |-> ind + 2, text |-> rest]], i)
         IN  IF e.ok THEN yamlSequence(lines, e.next, ind, Append(acc, e.val))
             ELSE NotParsed

\* the members of the block mapping indented by ind, from line i on
yamlMapping(lines, i, ind, acc) ==
    IF i > Len(lines) \/ lines[i].ind # ind \/ yamlIsItem(lines[i].text)
       \/ yamlKeyEnd(lines[i].text) = 0
    THEN Parsed(JVal("obj", "", acc), i)
    ELSE LET t == lines[i].text
             k == yamlKeyEnd(t)
             rest == IF k + 1 >= Len(t) THEN "" ELSE SubSeq(t, k + 2, Len(t))
             e == IF rest # ""
                  THEN LET v == yamlInline(rest)
                       IN  IF v.ok THEN Parsed(v.val, i + 1) ELSE NotParsed
                  ELSE IF i + 1 <= Len(lines)
                          /\ \/ lines[i + 1].ind > ind
                             \/ lines[i + 1].ind = ind /\ yamlIsItem(lines[i + 1].text)
                  THEN yamlNode(lines, i + 1)
                  ELSE Parsed(JVal("null", "", <<>>), i + 1)
         IN  IF e.ok
             THEN yamlMapping(lines, e.next, ind,
                              Append(acc, [key |-> SubSeq(t, 1, k - 1), val |-> e.val]))
             ELSE NotParsed

\* the unmarshal function yaml.Unmarshal passes to UnmarshalYAML, called
\* with &aggsEnc: [ok, val]
yamlUnmarshal(s) ==
    LET lines == yamlLines(s)
        p == yamlNode(lines, 1)
    IN  IF p.ok /\ p.next = Len(lines) + 1 THEN fillAggregatorsEncoded(p.val) ELSE Mismatch

(***************************************************************************)
(* Encoding an Aggregators value and decoding the result into a variable,  *)
(* as TestEncodingDecodingAggregators does, or decoding a given document.  *)
(***************************************************************************)
RECURSIVE SeqsUpTo(_, _)
\* the sequences of at most n elements of S
SeqsUpTo(S, n) ==
    IF n = 0 THEN { <<>> }
    ELSE LET shorter == SeqsUpTo(S, n - 1)
         IN  shorter \cup { Append(q, x) : q \in shorter, x \in S }

\* the Aggregators values that are encoded
AggregatorsValues ==
    LET Urls == {"", "http://a", "\"<\\"}
        MetricNames == {"m1", "1"}
    IN  SeqsUpTo({ Aggregator(u, m) : u \in Urls, m \in SUBSET MetricNames }, MaxAggregators)

\* what the variable decoded into may hold beforehand
PriorValues == { <<>>, << Aggregator("http://old", {"m0"}) >> }

\* documents that were not written by Marshal
Documents ==
    [json |-> {"null", "{}", "{\"aggregators\":[{\"url\":[]}]}", "{\"aggregators\":[",
               "{\"aggregators\":[{\"metrics\":[\"m1\",\"m1\"],\"url\":\"http:\\/\\/a\"},null]}"},
     yaml |-> {"{}\n", "aggregators:\n", "aggregators:\n- url: []\n", "aggregators:\n- url: \"a\n",
               "aggregators:\n- metrics:\n  - m1\n  - m1\n  url: 'http://a'\n-\n"}]

AggInit ==
    /\ CfgIdle
    /\ TypIdle
    /\ BfIdle
    /\ format \in {"json", "yaml"}
    /\ \/ /\ aggs \in { <<a>> : a \in AggregatorsValues }
          /\ encoded = NilPtr
       \/ /\ aggs = NilPtr
          /\ encoded \in { <<d>> : d \in Documents[format] }
    /\ decoded \in PriorValues
    /\ prior = decoded
    /\ decodeErr = ""

\* json.Marshal(a): MarshalJSON
MarshalJSON ==
    /\ format = "json"
    /\ aggs # NilPtr
    /\ encoded = NilPtr
    /\ \E aggsEnc \in getEncoded(aggs[1]) : encoded' = << jsonMarshal(aggsEnc) >>
    /\ UNCHANGED <<cfgVars, typVars, bfVars, aggs, format, decoded, prior, decodeErr>>

\* yaml.Marshal(a): MarshalYAML
MarshalYAML ==
    /\ format = "yaml"
    /\ aggs # NilPtr
    /\ encoded = NilPtr
    /\ \E aggsEnc \in getEncoded(aggs[1]) : encoded' = << yamlMarshal(aggsEnc) >>
    /\ UNCHANGED <<cfgVars, typVars, bfVars, aggs, format, decoded, prior, decodeErr>>

\* json.Unmarshal(encoded, &decoded): UnmarshalJSON
UnmarshalJSON ==
    /\ format = "json"
    /\ encoded # NilPtr
    /\ decodeErr = ""
    /\ LET aggsEnc == jsonUnmarshal(encoded[1])
       IN  IF aggsEnc.ok
           THEN decoded' = applyEncoded(decoded, aggsEnc.val) /\ decodeErr' = "nil"
           ELSE decodeErr' = "error" /\ UNCHANGED decoded
    /\ UNCHANGED <<cfgVars, typVars, bfVars, aggs, format, encoded, prior>>

\* yaml.Unmarshal(encoded, &decoded): UnmarshalYAML
UnmarshalYAML ==
    /\ format = "yaml"
    /\ encoded # NilPtr
    /\ decodeErr = ""
    /\ LET aggsEnc == yamlUnmarshal(encoded[1])
       IN  IF aggsEnc.ok
           THEN decoded' = applyEncoded(decoded, aggsEnc.val) /\ decodeErr' = "nil"
           ELSE decodeErr' = "error" /\ UNCHANGED decoded
    /\ UNCHANGED <<cfgVars, typVars, bfVars, aggs, format, encoded, prior>>

AggNext ==
    \/ MarshalJSON
    \/ MarshalYAML
    \/ UnmarshalJSON
    \/ UnmarshalYAML

AggSpec == AggInit /\ [][AggNext]_vars

Visited(rel, dir, fails) == [rel |-> rel, dir |-> dir, fails |-> fails]

\* the layouts of an entry of the source directory
Layouts ==
    [good |-> [meta |-> TRUE,
               walk |-> << Visited("", TRUE, ""), Visited("chunks", TRUE, ""),
                           Visited("chunks/000001", FALSE, ""),
                           Visited("index", FALSE, ""), Visited("meta.json", FALSE, "") >>],
     odd |-> [meta |-> TRUE,
              walk |-> << Visited("", TRUE, ""), Visited("chunks", TRUE, ""),
                          Visited("chunks/meta.json", FALSE, ""),
                          Visited("index", FALSE, ""), Visited("meta.json", FALSE, "") >>],
     locked |-> [meta |-> TRUE,
                 walk |-> << Visited("", TRUE, ""), Visited("chunks", TRUE, ""),
                             Visited("chunks/000001", FALSE, "open"),
                             Visited("index", FALSE, ""), Visited("meta.json", FALSE, "") >>],
     torn |-> [meta |-> TRUE,
               walk |-> << Visited("", TRUE, ""), Visited("chunks", TRUE, ""),
                           Visited("chunks/000001", FALSE, ""),
                           Visited("index", FALSE, "walk"), Visited("meta.json", FALSE, "") >>],
     stray |-> [meta |-> FALSE, walk |-> <<>>]]

\* the entries of a source directory with the layouts ls; their names, in
\* the order of os.ReadDir, are also the ULIDs of their meta.json
SourceEntries(ls) ==
    LET BlockNames == <<"01A", "01B", "01C", "01D">>
    IN
    [i \in 1..Len(ls) |->
        [name |-> BlockNames[i], ULID |-> BlockNames[i],
         meta |-> Layouts[ls[i]].meta, walk |-> Layouts[ls[i]].walk]]

\* filepath.Base of a relative path
Base(pth) == LET parts == Split(pth, "/") IN parts[Len(parts)]

RECURSIVE PathEscape(_)
\* url.PathEscape on the characters the model uses
PathEscape(s) ==
    IF s = "" THEN ""
    ELSE (IF Head(s) = "/" THEN "%2F" ELSE Head(s)) \o PathEscape(Tail(s))

\* blockPrefix
blockPrefix(ulid) == "/api/v1/upload/block/" \o PathEscape(ulid)

\* what doRequest may return: an error, or a response with a status code
Responses ==
    { [err |-> TRUE, StatusCode |-> 0] }
    \cup { [err |-> FALSE, StatusCode |-> c] : c \in {200, 204, 404, 500} }

\* a variant of the status check that takes only 5xx for a failure
StatusOKUnless5xx(res) == res.StatusCode \div 100 # 5

\* res.StatusCode/100 == 2
StatusOK(res) == res.StatusCode \div 100 = 2

\* the record of a call of doRequest for the entry i of the source
\* directory, with what it returned
Request(i, kind, url, body, res) ==
    [block |-> i, kind |-> kind, url |-> url, body |-> body,
     err |-> res.err, StatusCode |-> res.StatusCode]

BfInit ==
    /\ CfgIdle
    /\ TypIdle
    /\ AggIdle
    /\ source \in { [readable |-> r, es |-> SourceEntries(ls)] :
                      r \in BOOLEAN, ls \in SeqsUpTo(DOMAIN Layouts, MaxBlocks) }
    /\ ~source.readable => source.es = <<>>
    /\ bfPc = "readdir"
    /\ bfBlock = 0
    /\ bfEntry = 0
    /\ requests = <<>>
    /\ bfErr = NilPtr

\* the entry of the source directory backfillBlock is at, and the entry
\* WalkDir is at
Block == source.es[bfBlock]

Entry == Block.walk[bfEntry]

\* Backfill or backfillBlock returns the error e
BfFail(e) ==
    /\ bfErr' = <<e>>
    /\ bfPc' = "done"
    /\ UNCHANGED <<bfBlock, bfEntry>>

\* backfillBlock returns nil: the loop of Backfill goes on
BfNextBlock ==
    /\ IF bfBlock < Len(source.es)
       THEN bfBlock' = bfBlock + 1 /\ bfPc' = "meta"
       ELSE bfPc' = "done" /\ UNCHANGED bfBlock
    /\ UNCHANGED bfErr
    /\ bfEntry' = 0

\* os.ReadDir(source) and the start of the loop
ReadDir ==
    /\ bfPc = "readdir"
    /\ IF source.readable THEN BfNextBlock ELSE BfFail("failed to read directory")
    /\ UNCHANGED <<cfgVars, typVars, aggVars, source, requests>>

\* getBlockMeta(dpath)
GetBlockMeta ==
    /\ bfPc = "meta"
    /\ IF Block.meta
       THEN bfPc' = "start" /\ UNCHANGED <<bfBlock, bfEntry, bfErr>>
       ELSE BfFail("failed to open meta.json")
    /\ UNCHANGED <<cfgVars, typVars, aggVars, source, requests>>

\* the request to start the backfill of the block, with the metadata as body
StartRequest ==
    /\ bfPc = "start"
    /\ \E res \in Responses :
          /\ requests' = Append(requests,
                                Request(bfBlock, "start", blockPrefix(Block.ULID),
                                        <<"meta", Block.ULID>>, res))
          /\ IF res.err THEN BfFail("request to start backfill failed")
             ELSE IF ~StatusOK(res)
             THEN BfFail("request to start backfill failed, status code "
                         \o ToString(res.StatusCode))
             ELSE bfPc' = "walk" /\ bfEntry' = 1 /\ UNCHANGED <<bfBlock, bfErr>>
    /\ UNCHANGED <<cfgVars, typVars, aggVars, source>>

\* the function of WalkDir on an entry it does not upload: it returns the
\* error it was handed, or nil for a directory and for meta.json
WalkSkip ==
    /\ bfPc = "walk"
    /\ bfEntry <= Len(Block.walk)
    /\ Entry.fails = "walk" \/ Entry.dir \/ Base(Entry.rel) = "meta.json"
    /\ IF Entry.fails = "walk"
       THEN BfFail("failed to traverse " \o Block.name)
       ELSE bfEntry' = bfEntry + 1 /\ UNCHANGED <<bfPc, bfBlock, bfErr>>
    /\ UNCHANGED <<cfgVars, typVars, aggVars, source, requests>>

\* the function of WalkDir on a file: it is opened and uploaded
UploadFile ==
    /\ bfPc = "walk"
    /\ bfEntry <= Len(Block.walk)
    /\ ~(Entry.fails = "walk" \/ Entry.dir \/ Base(Entry.rel) = "meta.json")
    /\ IF Entry.fails = "open"
       THEN BfFail("failed to traverse " \o Block.name) /\ UNCHANGED requests
       ELSE \E res \in Responses :
               /\ requests' = Append(requests,
                                     Request(bfBlock, "file",
                                             blockPrefix(Block.ULID) \o "/files?path="
                                                \o PathEscape(Entry.rel),
                                             <<"file", Entry.rel>>, res))
               /\ IF res.err \/ ~StatusOK(res)
                  THEN BfFail("failed to traverse " \o Block.name)
                  ELSE bfEntry' = bfEntry + 1 /\ UNCHANGED <<bfPc, bfBlock, bfErr>>
    /\ UNCHANGED <<cfgVars, typVars, aggVars, source>>

\* WalkDir returned nil: the request to finish the backfill of the block
CompleteRequest ==
    /\ bfPc = "walk"
    /\ bfEntry > Len(Block.walk)
    /\ \E res \in Responses :
          /\ requests' = Append(requests,
                                Request(bfBlock, "complete",
                                        blockPrefix(Block.ULID) \o "?uploadComplete=true",
                                        <<>>, res))
          /\ IF res.err THEN BfFail("request to finish backfill failed")
             ELSE IF ~StatusOK(res)
             THEN BfFail("request to finish backfill failed, status code "
                         \o ToString(res.StatusCode))
             ELSE BfNextBlock
    /\ UNCHANGED <<cfgVars, typVars, aggVars, source>>

BfNext ==
    \/ ReadDir
    \/ GetBlockMeta
    \/ StartRequest
    \/ WalkSkip
    \/ UploadFile
    \/ CompleteRequest

BfSpec == BfInit /\ [][BfNext]_vars

(***************************************************************************)
(* C16.  The order of the requests of a backfill.                          *)
(***************************************************************************)
\* the requests sent for the entry i of the source directory
RequestsOf(i) == SelectSeq(requests, LAMBDA r : r.block = i)

\* what a request is: its kind and what it carries
Shape(kind, body) == [kind |-> kind, body |-> body]

\* the files under a block directory that are not directories and are not
\* named meta.json, in the order of the walk
Uploads(e) == SelectSeq(e.walk, LAMBDA v : ~v.dir /\ Base(v.rel) # "meta.json")

\* the requests of a complete backfill of the block e
Expected(e) ==
    << Shape("start", <<"meta", e.ULID>>) >>
    \o [k \in 1..Len(Uploads(e)) |-> Shape("file", <<"file", Uploads(e)[k].rel>>)]
    \o << Shape("complete", <<>>) >>

IsPrefix(p, q) == Len(p) <= Len(q) /\ p = SubSeq(q, 1, Len(p))

\* a request that came back without error and with a 2xx status
Succeeded(r) == ~r.err /\ r.StatusCode >= 200 /\ r.StatusCode <= 299

\* the backfill of the entry i is complete: all its requests were sent
Completed(i) == Len(RequestsOf(i)) = Len(Expected(source.es[i]))

\* C16: the requests of each block are sent in the order start (carrying
\* the block metadata), one upload per file under the directory that is not
\* named meta.json, complete; a request is sent only after every earlier
\* request came back 2xx without error, so that the complete request follows
\* a successful start and successful uploads and a failed request is the
\* last one and ends Backfill with an error; a block is started only after
\* the blocks before it are complete; and Backfill returns nil only when
\* every block is complete.
C16_BackfillOrder ==
    /\ \A i \in 1..Len(source.es) :
          /\ IsPrefix([k \in 1..Len(RequestsOf(i)) |->
                          Shape(RequestsOf(i)[k].kind, RequestsOf(i)[k].body)],
                      Expected(source.es[i]))
          /\ RequestsOf(i) # <<>> => \A j \in 1..(i - 1) : Completed(j)
    /\ \A k \in 1..Len(requests) :
          IF Succeeded(requests[k])
          THEN k < Len(requests) => requests[k].block <= requests[k + 1].block
          ELSE k = Len(requests) /\ bfPc = "done" /\ bfErr # NilPtr
    /\ (bfPc = "done" /\ bfErr = NilPtr) =>
          /\ source.readable
          /\ \A i \in 1..Len(source.es) : Completed(i)
          /\ \A k \in 1..Len(requests) : Succeeded(requests[k])

\* C16 witness: the first block was backfilled completely, with two file
\* uploads, an upload of the second block came back 500, and Backfill
\* returned an error without a further request
C16_Witness ==
    /\ bfPc = "done"
    /\ bfErr # NilPtr
    /\ Len(source.es) = 2
    /\ Completed(1)
    /\ Len(RequestsOf(1)) = 4
    /\ requests[Len(requests)].block = 2
    /\ requests[Len(requests)].kind = "file"
    /\ requests[Len(requests)].StatusCode = 500
====
